---- MODULE Spec2Model ----
(***************************************************************************)
(* Model of src/src/lib.rs (crate shortestpath): a Graph of Nodes keyed by *)
(* name, built by add(), and queried by shortest_path(), a label-setting   *)
(* Dijkstra whose bookkeeping (done, costed, prev, passage) lives in the   *)
(* nodes of the graph itself.                                              *)
(*                                                                         *)
(* shortest_path is modelled step by step: the call, one scan for the      *)
(* unfinished node of least cost, one edge relaxation, the done mark, one  *)
(* iteration of the backward walk along prev.  The iteration order of the  *)
(* HashMap is unspecified, so the scan may pick any node of least cost.    *)
(* A failed unwrap() is the state pc = "panic".  Edge costs are small, so   *)
(* the i32 additions of the relaxation stay far from overflow.             *)
(***************************************************************************)
EXTENDS Integers, Sequences, FiniteSets, TLC

VARIABLES
    nodes,      \* Graph.nodes: key -> Node
    pc,         \* where the caller / shortest_path stands
    start,      \* shortest_path argument
    goal,       \* shortest_path argument
    done_node,  \* Option<String> chosen by the scan
    todo,       \* edges of done_node the for loop has still to visit
    passages,   \* Vec<WayKind> under construction, then the result's
    node_name,  \* cursor of the backward walk
    total_cost, \* ShortestPath.total_cost of the last result
    calls,      \* history: the add calls so far, in order
    queries,    \* history: number of shortest_path calls begun
    mode        \* "free": arbitrary calls; "test": tests::new_graph_success

vars == <<nodes, pc, start, goal, done_node, todo, passages, node_name,
          total_cost, calls, queries, mode>>

---------------------------------------------------------------------------
(* Bounds of the model *)

MaxAdds == 2

MaxQueries == 2

MaxRequeryAdds == 1

MaxRevisit == 1

FreeNames == {"s", "a", "b"}

UnknownKey == "q"

Keys == FreeNames \cup {UnknownKey}

Costs == {-1, 0, 1}

EdgeNames == <<"edge1", "edge2", "edge3", "edge4", "edge5", "edge6",
               "edge7", "edge8", "edge9", "edge10", "edge11", "edge12">>

---------------------------------------------------------------------------
(* Option<T>: None is the empty sequence, Some(x) is <<x>> *)

None == <<>>

Some(x) == <<x>>

IsSome(o) == o /= <<>>

Unwrap(o) == o[1]

(* struct Edge *)
Edge(next, name, cost) == [next |-> next, name |-> name, cost |-> cost]

(* the Node literals of add *)
NewNode(name, prev) ==
    [name |-> name, done |-> FALSE, edges |-> <<>>, costed |-> -1,
     prev |-> prev, passage |-> None]

(* enum WayKind *)
WayNode(name) == [kind |-> "Node", name |-> name, cost |-> 0]

WayEdge(name, cost) == [kind |-> "Edge", name |-> name, cost |-> cost]

RECURSIVE Reverse(_)
Reverse(s) == IF s = <<>> THEN <<>> ELSE Append(Reverse(Tail(s)), Head(s))

---------------------------------------------------------------------------
(* Graph::add *)

EntryOrInsert(ns, key, node) ==
    IF key \in DOMAIN ns THEN ns ELSE ns @@ (key :> node)

(* mutant of AddEdge: a second add for a (src, dst) pair updates the edge *)
AddEdge_Replace(ns, src, dst, cost, edge_name) ==
    LET n1 == EntryOrInsert(ns, dst, NewNode(dst, Some(src)))
        n2 == EntryOrInsert(n1, src, NewNode(src, None))
        es == n2[src].edges
        at == {i \in 1..Len(es) : es[i].next = dst}
    IN  IF at = {}
        THEN [n2 EXCEPT ![src].edges = Append(@, Edge(dst, edge_name, cost))]
        ELSE [n2 EXCEPT ![src].edges =
                 [i \in 1..Len(es) |->
                     IF i \in at THEN Edge(dst, edge_name, cost) ELSE es[i]]]

AddEdge(ns, src, dst, cost, edge_name) ==
    LET n1 == EntryOrInsert(ns, dst, NewNode(dst, Some(src)))
        n2 == EntryOrInsert(n1, src, NewNode(src, None))
    IN  [n2 EXCEPT ![src].edges = Append(@, Edge(dst, edge_name, cost))]

(* the private accessors *)
node_prev(ns, name) == IF name \in DOMAIN ns THEN ns[name].prev ELSE None

node_costed(ns, name) == IF name \in DOMAIN ns THEN ns[name].costed ELSE -1

node_edges(ns, name) == IF name \in DOMAIN ns THEN ns[name].edges ELSE <<>>

is_done_node(ns, name) == IF name \in DOMAIN ns THEN ns[name].done ELSE FALSE

update_node_edge(ns, next_node_name, cost, done_node_name, passed_edge) ==
    IF next_node_name \in DOMAIN ns
    THEN [ns EXCEPT ![next_node_name].costed = cost,
                    ![next_node_name].prev = Some(done_node_name),
                    ![next_node_name].passage = Some(passed_edge)]
    ELSE ns

update_node_done(ns, name, done) ==
    IF name \in DOMAIN ns THEN [ns EXCEPT ![name].done = done] ELSE ns

---------------------------------------------------------------------------
(* The caller *)

(* the calls explored: graphs of up to MaxAdds edges queried at most once, *)
(* and graphs of up to MaxRequeryAdds edges queried up to MaxQueries times *)
Within(adds, qs) ==
    \/ adds <= MaxAdds /\ qs <= 1
    \/ adds <= MaxRequeryAdds /\ qs <= MaxQueries

Idle == pc \in {"idle", "returned"}

Init ==
    /\ nodes = <<>>
    /\ pc = "idle"
    /\ start = UnknownKey
    /\ goal = UnknownKey
    /\ done_node = None
    /\ todo = <<>>
    /\ passages = <<>>
    /\ node_name = UnknownKey
    /\ total_cost = 0
    /\ calls = <<>>
    /\ queries = 0
    /\ mode \in {"free", "test"}

DoAdd(src, dst, cost, edge_name) ==
    /\ nodes' = AddEdge(nodes, src, dst, cost, edge_name)
    /\ calls' = Append(calls, [src |-> src, dst |-> dst, cost |-> cost,
                               name |-> edge_name])
    /\ pc' = "idle"
    /\ UNCHANGED <<start, goal, done_node, todo, passages, node_name,
                   total_cost, queries, mode>>

Add ==
    /\ mode = "free"
    /\ Idle
    /\ Within(Len(calls) + 1, queries)
    /\ \E src \in FreeNames, dst \in FreeNames, cost \in Costs :
          DoAdd(src, dst, cost, EdgeNames[Len(calls) + 1])

(* tests::new_graph_success: the nine add calls, then shortest_path("s","z") *)
TestAdds ==
    << [src |-> "s", dst |-> "a", cost |-> 2, name |-> "edge1"],
       [src |-> "s", dst |-> "b", cost |-> 5, name |-> "edge2"],
       [src |-> "a", dst |-> "b", cost |-> 2, name |-> "edge3"],
       [src |-> "a", dst |-> "c", cost |-> 5, name |-> "edge4"],
       [src |-> "b", dst |-> "c", cost |-> 4, name |-> "edge5"],
       [src |-> "b", dst |-> "d", cost |-> 2, name |-> "edge6"],
       [src |-> "c", dst |-> "z", cost |-> 7, name |-> "edge7"],
       [src |-> "d", dst |-> "c", cost |-> 5, name |-> "edge8"],
       [src |-> "d", dst |-> "z", cost |-> 2, name |-> "edge9"] >>

TestAdd ==
    /\ mode = "test"
    /\ Idle
    /\ Len(calls) < Len(TestAdds)
    /\ LET c == TestAdds[Len(calls) + 1]
       IN  DoAdd(c.src, c.dst, c.cost, c.name)

---------------------------------------------------------------------------
(* Graph::shortest_path *)

(* mutant of StartNode: the start node is created when it is missing *)
StartNode_Insert(ns, st) ==
    IF st \in DOMAIN ns THEN [ns EXCEPT ![st].costed = 0]
    ELSE ns @@ (st :> [NewNode(st, None) EXCEPT !.costed = 0])

(* mutant of StartNode: the bookkeeping of every node is reset first *)
StartNode_Reset(ns, st) ==
    IF st \in DOMAIN ns
    THEN [n \in DOMAIN ns |->
             [ns[n] EXCEPT !.done = FALSE,
                           !.costed = IF n = st THEN 0 ELSE -1,
                           !.prev = None,
                           !.passage = None]]
    ELSE ns

(* lines 133-134: if let Some(start_node) = get_mut(start) { costed = 0 } *)
StartNode(ns, st) ==
    IF st \in DOMAIN ns THEN [ns EXCEPT ![st].costed = 0] ELSE ns

(* lines 139-143: the nodes the scan does not skip *)
Candidates(ns) == {n \in DOMAIN ns : ~(ns[n].done \/ ns[n].costed < 0)}

(* lines 144-148: the first candidate met is kept until one of strictly  *)
(* smaller cost is met, so the scan ends on a candidate of least cost;   *)
(* which one depends on the HashMap's iteration order                    *)
ScanResults(ns) ==
    {n \in Candidates(ns) :
        \A m \in Candidates(ns) : ~(ns[m].costed < node_costed(ns, n))}

(* mutant of Improves: only an unreached node is labelled *)
Improves_UnreachedOnly(next_node_costed, new_cost) ==
    next_node_costed = -1

(* mutant of Improves: an equal cost also replaces the label *)
Improves_OrEqual(next_node_costed, new_cost) ==
    next_node_costed = -1 \/ new_cost <= next_node_costed

(* line 167 *)
Improves(next_node_costed, new_cost) ==
    next_node_costed = -1 \/ new_cost < next_node_costed

(* lines 158-169: the body of the for loop, for one edge *)
RelaxEdge(ns, done_node_name, edge) ==
    LET next_node == edge.next
        new_cost == node_costed(ns, done_node_name) + edge.cost
        next_node_costed == node_costed(ns, next_node)
    IN  IF is_done_node(ns, next_node) THEN ns
        ELSE IF Improves(next_node_costed, new_cost)
             THEN update_node_edge(ns, next_node, new_cost, done_node_name, edge)
             ELSE ns

(* mutant of Pushed: the edge is pushed before the node it leads to *)
Pushed_EdgeFirst(ps, node) ==
    LET p1 == IF IsSome(node.passage)
              THEN Append(ps, WayEdge(Unwrap(node.passage).name,
                                      Unwrap(node.passage).cost))
              ELSE ps
    IN  Append(p1, WayNode(node.name))

(* lines 183-187: what one iteration of the walk pushes *)
Pushed(ps, node) ==
    LET p1 == Append(ps, WayNode(node.name))
    IN  IF IsSome(node.passage)
        THEN Append(p1, WayEdge(Unwrap(node.passage).name,
                                Unwrap(node.passage).cost))
        ELSE p1

(* how often the walk has pushed Node(name) so far *)
Visits(ps, name) ==
    Cardinality({i \in 1..Len(ps) : ps[i] = WayNode(name)})

DoCall(st, gl) ==
    /\ start' = st
    /\ goal' = gl
    /\ queries' = queries + 1
    /\ nodes' = StartNode(nodes, st)
    /\ passages' = <<>>
    /\ IF st \in DOMAIN nodes
       THEN /\ pc' = "scan"
            /\ total_cost' = 0
       ELSE /\ pc' = "returned"
            /\ total_cost' = -1
    /\ UNCHANGED <<done_node, todo, node_name, calls, mode>>

Call ==
    /\ mode = "free"
    /\ Idle
    /\ Within(Len(calls), queries + 1)
    /\ \E st \in Keys, gl \in Keys : DoCall(st, gl)

TestCall ==
    /\ mode = "test"
    /\ Idle
    /\ Len(calls) = Len(TestAdds)
    /\ queries = 0
    /\ DoCall("s", "z")

(* lines 137-155 *)
Scan ==
    /\ pc = "scan"
    /\ IF ScanResults(nodes) = {}
       THEN /\ done_node' = None
            /\ todo' = <<>>
            /\ node_name' = goal
            /\ pc' = "walk"
       ELSE \E n \in ScanResults(nodes) :
            /\ done_node' = Some(n)
            /\ todo' = node_edges(nodes, n)
            /\ node_name' = node_name
            /\ pc' = "relax"
    /\ UNCHANGED <<nodes, start, goal, passages, total_cost, calls,
                   queries, mode>>

(* lines 157-170, one edge *)
Relax ==
    /\ pc = "relax"
    /\ todo /= <<>>
    /\ nodes' = RelaxEdge(nodes, Unwrap(done_node), Head(todo))
    /\ todo' = Tail(todo)
    /\ UNCHANGED <<pc, start, goal, done_node, passages, node_name,
                   total_cost, calls, queries, mode>>

(* lines 172-176, then 179-180 when the loop is left *)
MarkDone ==
    /\ pc = "relax"
    /\ todo = <<>>
    /\ nodes' = update_node_done(nodes, Unwrap(done_node), TRUE)
    /\ IF Unwrap(done_node) = goal
       THEN /\ pc' = "walk"
            /\ node_name' = goal
       ELSE /\ pc' = "scan"
            /\ node_name' = node_name
    /\ done_node' = None
    /\ UNCHANGED <<start, goal, todo, passages, total_cost, calls,
                   queries, mode>>

(* lines 198-199: reverse, then nodes.get(goal).unwrap().costed *)
Return(ps) ==
    /\ node_name' = UnknownKey
    /\ IF goal \in DOMAIN nodes
       THEN /\ pc' = "returned"
            /\ passages' = Reverse(ps)
            /\ total_cost' = nodes[goal].costed
       ELSE /\ pc' = "panic"
            /\ passages' = <<>>
            /\ total_cost' = total_cost

(* lines 181-196, one iteration; a walk that keeps coming back to the   *)
(* same node is followed for MaxRevisit further rounds only             *)
Walk ==
    /\ pc = "walk"
    /\ Visits(passages, node_name) <= MaxRevisit
    /\ IF node_name \in DOMAIN nodes
       THEN LET node == nodes[node_name]
                ps == Pushed(passages, node)
            IN  IF node.name = start
                THEN Return(ps)
                ELSE IF IsSome(node_prev(nodes, node_name))
                     THEN /\ node_name' = Unwrap(node_prev(nodes, node_name))
                          /\ passages' = ps
                          /\ UNCHANGED <<pc, total_cost>>
                     ELSE /\ pc' = "panic"
                          /\ passages' = <<>>
                          /\ node_name' = UnknownKey
                          /\ UNCHANGED total_cost
       ELSE Return(passages)
    /\ UNCHANGED <<nodes, start, goal, done_node, todo, calls, queries, mode>>

Next ==
    \/ Add
    \/ TestAdd
    \/ Call
    \/ TestCall
    \/ Scan
    \/ Relax
    \/ MarkDone
    \/ Walk

Spec == Init /\ [][Next]_vars

---------------------------------------------------------------------------
(* What the claims speak of, computed from the history of add calls *)

CallSet == {calls[i] : i \in 1..Len(calls)}

NonNegative == \A c \in CallSet : c.cost >= 0

(* the edges add was asked to hang on node n, in call order *)
RECURSIVE AddedFrom(_, _)
AddedFrom(cs, n) ==
    IF cs = <<>> THEN <<>>
    ELSE LET c == cs[Len(cs)]
             rest == AddedFrom(SubSeq(cs, 1, Len(cs) - 1), n)
         IN  IF c.src = n THEN Append(rest, Edge(c.dst, c.name, c.cost))
             ELSE rest

Mentioned == {c.src : c \in CallSet} \cup {c.dst : c \in CallSet}

(* <<node, cost>> of every directed path of at most k edges from st *)
RECURSIVE PathCosts(_, _)
PathCosts(st, k) ==
    IF k = 0 THEN {<<st, 0>>}
    ELSE LET S == PathCosts(st, k - 1)
         IN  S \cup UNION {{<<c.dst, p[2] + c.cost>> :
                               c \in {x \in CallSet : x.src = p[1]}} : p \in S}

Reachable(st, gl) ==
    /\ st \in Mentioned
    /\ \E p \in PathCosts(st, Cardinality(Mentioned)) : p[1] = gl

(* the least cost of a directed path from st to gl, gl reachable *)
Dist(st, gl) ==
    LET cs == {p[2] : p \in {x \in PathCosts(st, Cardinality(Mentioned)) :
                                x[1] = gl}}
    IN  CHOOSE c \in cs : \A d \in cs : c <= d

RECURSIVE EdgeCostSum(_)
EdgeCostSum(ps) ==
    IF ps = <<>> THEN 0
    ELSE (IF Head(ps).kind = "Edge" THEN Head(ps).cost ELSE 0)
         + EdgeCostSum(Tail(ps))

(* the first call on the graph has returned, for a goal within reach *)
FirstResult ==
    /\ pc = "returned"
    /\ queries = 1
    /\ NonNegative
    /\ Reachable(start, goal)

TestResult == mode = "test" /\ pc = "returned"

---------------------------------------------------------------------------
(* C1: on a graph built by add calls with non-negative costs and not     *)
(* queried before, the cost returned for a goal within reach of start is *)
(* the least cost of a directed path from start to goal, whichever node  *)
(* the scan picks among ties; the example graph gives 8 for s to z.      *)
C1_MinimumCost ==
    /\ FirstResult => total_cost = Dist(start, goal)
    /\ TestResult => total_cost = 8

(* a first result over two edges in a row *)
C1_Witness ==
    /\ FirstResult
    /\ mode = "free"
    /\ Len(passages) = 5
    /\ total_cost = Dist(start, goal)

(* a path from Node(start) to Node(goal) over added edges *)
WellFormedPath(ps) ==
    /\ Len(ps) % 2 = 1
    /\ \A i \in 1..Len(ps) :
          ps[i].kind = (IF i % 2 = 1 THEN "Node" ELSE "Edge")
    /\ ps[1] = WayNode(start)
    /\ ps[Len(ps)] = WayNode(goal)
    /\ \A i \in 1..Len(ps) :
          i % 2 = 0 =>
             \E c \in CallSet : /\ c.src = ps[i - 1].name
                                /\ c.dst = ps[i + 1].name
                                /\ c.name = ps[i].name
                                /\ c.cost = ps[i].cost

TestPath ==
    << WayNode("s"), WayEdge("edge1", 2), WayNode("a"), WayEdge("edge3", 2),
       WayNode("b"), WayEdge("edge6", 2), WayNode("d"), WayEdge("edge9", 2),
       WayNode("z") >>

(* C2: the first result for a goal within reach alternates Node, Edge,   *)
(* ..., Node, starts at Node(start), ends at Node(goal), and every Edge  *)
(* is one add hung between the Nodes beside it (same name and cost); on  *)
(* the example graph it is s, edge1, a, edge3, b, edge6, d, edge9, z.    *)
C2_PathShape ==
    /\ FirstResult => WellFormedPath(passages)
    /\ TestResult => passages = TestPath

(* the example's result *)
C2_Witness == TestResult /\ Len(passages) = Len(TestPath)

(* C3: the cost of a result is the sum of the costs of the Edge elements *)
(* of its path.  Stated for the results the reconstruction builds (start *)
(* is a node) on graphs of non-negative costs.                           *)
C3_CostIsEdgeSum ==
    (pc = "returned" /\ start \in DOMAIN nodes /\ NonNegative)
        => total_cost = EdgeCostSum(passages)

(* C4: a first call whose start is a node and whose goal is out of reach *)
(* does not fault and returns cost -1 with an empty path.                *)
C4_UnreachableGoal ==
    (queries = 1 /\ NonNegative /\ start \in DOMAIN nodes
                 /\ ~Reachable(start, goal))
        => /\ pc /= "panic"
           /\ pc = "returned" => (total_cost = -1 /\ passages = <<>>)

(* C5: every call terminates.  The graph does not change during the      *)
(* backward walk and each iteration is decided by node_name alone, so a  *)
(* walk that comes back to a node it has pushed never ends: termination  *)
(* of the walk is that no iteration starts on a node already pushed.     *)
C5_WalkTerminates ==
    pc = "walk" => Visits(passages, node_name) = 0

(* C6: a call whose start is no key of the graph returns at once with    *)
(* cost -1 and an empty path, whatever the goal, and changes no node.    *)
C6_UnknownStart ==
    [][(queries' = queries + 1 /\ start' \notin DOMAIN nodes)
          => /\ pc' = "returned"
             /\ total_cost' = -1
             /\ passages' = <<>>
             /\ nodes' = nodes]_vars

(* such a call has returned, on a graph that has nodes *)
C6_Witness ==
    /\ pc = "returned"
    /\ start \notin DOMAIN nodes
    /\ DOMAIN nodes /= {}
    /\ total_cost = -1

(* C7: shortest_path(start, start) on a graph that holds start returns   *)
(* cost 0 and the path of the single element Node(start).                *)
C7_StartIsGoal ==
    (pc = "returned" /\ start \in DOMAIN nodes /\ start = goal /\ NonNegative)
        => (total_cost = 0 /\ passages = <<WayNode(start)>>)

(* C8: a call after the first starts from the done, costed, prev and     *)
(* passage the earlier calls left (only start's costed is written, to    *)
(* 0); the witness is a second result whose cost is not the distance.    *)
C8_NoReset ==
    [][(queries >= 1 /\ queries' = queries + 1)
          => /\ DOMAIN nodes' = DOMAIN nodes
             /\ \A n \in DOMAIN nodes :
                   /\ nodes'[n].done = nodes[n].done
                   /\ nodes'[n].prev = nodes[n].prev
                   /\ nodes'[n].passage = nodes[n].passage
                   /\ nodes'[n].edges = nodes[n].edges
                   /\ nodes'[n].costed =
                         (IF n = start' THEN 0 ELSE nodes[n].costed)]_vars

C8_Witness ==
    /\ pc = "returned"
    /\ queries = 2
    /\ NonNegative
    /\ Reachable(start, goal)
    /\ total_cost /= Dist(start, goal)

(* C9: each node's edge list is the sequence of the add calls that name  *)
(* it as src, in call order (parallel edges stay side by side), the keys *)
(* are the names the calls mention, every edge's next is a key, and the  *)
(* nodes of a graph never queried have done = false and costed = -1.     *)
C9_EdgesAreTheAdds ==
    /\ DOMAIN nodes = Mentioned
    /\ \A n \in DOMAIN nodes :
          /\ nodes[n].edges = AddedFrom(calls, n)
          /\ nodes[n].name = n
          /\ \A i \in 1..Len(nodes[n].edges) :
                nodes[n].edges[i].next \in DOMAIN nodes
          /\ queries = 0 => (~nodes[n].done /\ nodes[n].costed = -1)

(* two add calls for one (src, dst) pair have left two edges *)
C9_Witness ==
    \E i, j \in 1..Len(calls) :
        /\ i < j
        /\ calls[i].src = calls[j].src
        /\ calls[i].dst = calls[j].dst
        /\ Len(nodes[calls[i].src].edges) = 2

(* C10: in the relaxation loop, on a graph of non-negative costs, a node *)
(* whose costed is >= 0 is only ever written a strictly smaller costed   *)
(* >= 0, and a node that is done is not written at all.                  *)
C10_Monotone ==
    [][(pc \in {"scan", "relax"} /\ NonNegative)
          => \A n \in DOMAIN nodes :
                /\ nodes[n].done => nodes'[n] = nodes[n]
                /\ nodes[n].costed >= 0
                      => \/ /\ nodes'[n].costed = nodes[n].costed
                            /\ nodes'[n].prev = nodes[n].prev
                            /\ nodes'[n].passage = nodes[n].passage
                         \/ /\ 0 <= nodes'[n].costed
                            /\ nodes'[n].costed < nodes[n].costed]_vars

(* a later, cheaper parallel edge has replaced an earlier one as passage *)
C10_Witness ==
    /\ pc = "relax"
    /\ NonNegative
    /\ queries = 1
    /\ LET es == nodes[Unwrap(done_node)].edges
           seen == Len(es) - Len(todo)
       IN  \E i, j \in 1..seen :
              /\ i < j
              /\ es[i].next = es[j].next
              /\ es[j].cost < es[i].cost
              /\ ~nodes[es[j].next].done
              /\ nodes[es[j].next].passage = Some(es[j])

====
